---- MODULE Spec2Model ----
(***************************************************************************)
(* Model of the PDF acquisition pipeline of download_pdfs.py: link         *)
(* discovery (main), PDF URL resolution (get_pdf_url), filename derivation *)
(* (get_pdf_filename), download with skip (download_pdf) and the batch     *)
(* loop (process_article_links).                                           *)
(*                                                                         *)
(* Text is modelled as a sequence of tokens.  A token is a run of          *)
(* characters that the code never looks inside: the separators the code    *)
(* splits on ("/", "?", the quotes, "filename=") and the words it searches *)
(* for ("pdf", "download", "report", ...) are tokens of their own, so that *)
(* Python's substring test `w in s` is containment of the token w and      *)
(* str.split(sep) cuts at the token sep.                                   *)
(***************************************************************************)
EXTENDS Integers, Sequences, FiniteSets, TLC

VARIABLES
    \* get_pdf_filename / download_pdf
    pdf_url,        \* argument of download_pdf / get_pdf_filename
    head_response,  \* response of session.head(pdf_url)
    filename,       \* result of get_pdf_filename
    \* get_pdf_url
    article_url,    \* argument of get_pdf_url
    page,           \* how the server answers GET article_url
    probe,          \* how the servers answer HEAD of each candidate URL
    resolved,       \* what get_pdf_url returned
    reqs,           \* the network requests the last call issued, in order
    \* process_article_links
    article_links,  \* argument of process_article_links
    idx,            \* index of the link the loop is at (1-based)
    state,          \* state[i]: how far link i has got
    pdf_path,       \* what download_pdf returned
    returned,       \* returned[i]: what download_pdf returned for link i
    downloaded_files, \* the list that process_article_links collects
    fs,             \* the files on disk: path -> [size, from]
    events,         \* page fetches, downloads and sleeps of the run, in order
    calls,          \* how many calls of download_pdf have been made
    \* main
    response,       \* what requests.get answered for the seed visited last
    all_links,      \* the set of links main gathers
    pc              \* position of the running program

filenameVars == <<pdf_url, head_response, filename>>
resolveVars == <<article_url, page, probe, resolved>>
batchVars == <<article_links, idx, state, pdf_path, returned,
               downloaded_files, fs, events, calls>>

discoverVars == <<response, all_links>>

vars == <<pdf_url, head_response, filename, article_url, page, probe,
          resolved, reqs, article_links, idx, state, pdf_path,
          returned, downloaded_files, fs, events, calls,
          response, all_links, pc>>

(***************************************************************************)
(* Text                                                                    *)
(***************************************************************************)

\* str.lower() on one token
LowerTok(t) ==
    CASE t = "PDF" -> "pdf"
      [] t = "Report" -> "report"
      [] t = "Study" -> "study"
      [] t = "Research" -> "research"
      [] OTHER -> t

\* str.lower()
Lower(s) == [i \in 1..Len(s) |-> LowerTok(s[i])]

\* `w in s` for a one-token word w
Contains(s, w) == \E i \in 1..Len(s) : s[i] = w

\* `sub in s` for a text sub of several tokens
ContainsText(s, sub) ==
    \E i \in 1..(Len(s) - Len(sub) + 1) : SubSeq(s, i, i + Len(sub) - 1) = sub

\* s.endswith(suffix)
EndsWith(s, suffix) ==
    /\ Len(s) >= Len(suffix)
    /\ SubSeq(s, Len(s) - Len(suffix) + 1, Len(s)) = suffix

\* s.split(sep)[-1]: what follows the last occurrence of sep (all of s if none)
SplitLast(s, sep) ==
    IF Contains(s, sep)
    THEN LET i == CHOOSE k \in 1..Len(s) :
                      s[k] = sep /\ \A j \in (k+1)..Len(s) : s[j] # sep
         IN  SubSeq(s, i + 1, Len(s))
    ELSE s

\* s.split(sep)[0]: what precedes the first occurrence of sep (all of s if none)
SplitFirst(s, sep) ==
    IF Contains(s, sep)
    THEN LET i == CHOOSE k \in 1..Len(s) :
                      s[k] = sep /\ \A j \in 1..(k-1) : s[j] # sep
         IN  SubSeq(s, 1, i - 1)
    ELSE s

RECURSIVE LStrip(_, _)
LStrip(s, chars) ==
    IF s # <<>> /\ Head(s) \in chars THEN LStrip(Tail(s), chars) ELSE s

RECURSIVE RStrip(_, _)
RStrip(s, chars) ==
    IF s # <<>> /\ s[Len(s)] \in chars
    THEN RStrip(SubSeq(s, 1, Len(s) - 1), chars)
    ELSE s

\* s.strip(chars)
Strip(s, chars) == RStrip(LStrip(s, chars), chars)

RECURSIVE Concat(_)
\* the concatenation of a sequence of texts
Concat(ss) == IF ss = <<>> THEN <<>> ELSE Head(ss) \o Concat(Tail(ss))

(***************************************************************************)
(* URLs                                                                    *)
(***************************************************************************)

Scheme == "https:"

\* "https://<host>"
Origin(host) == <<Scheme, "/", "/", host>>

\* the length of "https://<host>" in tokens
OriginLen == Len(Origin("h"))

\* urljoin(base, href) raises ValueError ("Invalid IPv6 URL"): the href has a
\* network location with an opening bracket that is never closed, as "//[a.pdf"
UrlJoinRaises(href) ==
    /\ Len(href) >= 3
    /\ SubSeq(href, 1, 3) = <<"/", "/", "[">>
    /\ \A i \in 1..Len(href) : href[i] # "]"

\* urllib.parse.urljoin(base, href) for the shapes of href the pages hold:
\* absolute, absolute path, query only, fragment only, empty, relative path
\* (dot segments do not occur in the pages drawn here).
UrlJoin(base, href) ==
    LET noFrag == SplitFirst(base, "#")
        noQuery == SplitFirst(noFrag, "?")
        dir == IF Len(noQuery) <= OriginLen
               THEN noQuery \o <<"/">>
               ELSE SubSeq(noQuery, 1, Len(noQuery) - Len(SplitLast(noQuery, "/")))
    IN  CASE href = <<>> -> base
          [] Head(href) = Scheme -> href
          [] Head(href) = "/" -> SubSeq(base, 1, OriginLen) \o href
          [] Head(href) = "?" -> noQuery \o href
          [] Head(href) = "#" -> noFrag \o href
          [] OTHER -> dir \o href

(***************************************************************************)
(* Transport: the shared session with its retry policy, and the plain      *)
(* module-level requests.get / requests.head                               *)
(***************************************************************************)

\* Retry(total=5, ...)
RetryTotal == 5

\* status_forcelist
StatusForcelist == {429, 500, 502, 503, 504}

\* the status a server answers while it is transiently failing
TransientStatus == 503

\* A server's behaviour towards one request is [transient, reply]: it answers
\* `transient` attempts in a row with TransientStatus and the next one with
\* `reply`, which is a response record or ConnError (the connection fails).
ConnError == [raised |-> TRUE]

HtmlType == <<"text/html">>
PdfType == <<"application/", "pdf">>

\* no request has been sent
NoResponse == [raised |-> TRUE, unsent |-> TRUE]

\* the error page sent with a transient status
TransientReply ==
    [raised |-> FALSE, status |-> TransientStatus, content_type |-> HtmlType,
     anchors |-> <<>>]

\* a 200 answer with an HTML page that holds these anchors
OkPage(anchors) ==
    [raised |-> FALSE, status |-> 200, content_type |-> HtmlType, anchors |-> anchors]

\* a 404 answer
NotFound ==
    [raised |-> FALSE, status |-> 404, content_type |-> HtmlType, anchors |-> <<>>]

\* session.get / session.head: the adapter mounted by create_session retries a
\* status of the forcelist up to RetryTotal times, then raises.
SessionSend(site, url, behaviour) ==
    IF TransientStatus \in StatusForcelist /\ behaviour.transient > RetryTotal
    THEN [site |-> site, via |-> "session", url |-> url,
          attempts |-> RetryTotal + 1, retryable |-> TRUE, response |-> ConnError]
    ELSE [site |-> site, via |-> "session", url |-> url,
          attempts |-> behaviour.transient + 1, retryable |-> FALSE,
          response |-> behaviour.reply]

\* requests.get / requests.head: a fresh default session, no retry on status
PlainSend(site, url, behaviour) ==
    IF behaviour.transient > 0
    THEN [site |-> site, via |-> "requests", url |-> url,
          attempts |-> 1, retryable |-> TRUE, response |-> TransientReply]
    ELSE [site |-> site, via |-> "requests", url |-> url,
          attempts |-> 1, retryable |-> FALSE, response |-> behaviour.reply]

\* what the request log keeps of a request
Logged(sent) ==
    [site |-> sent.site, via |-> sent.via, url |-> sent.url,
     attempts |-> sent.attempts, retryable |-> sent.retryable]

\* response.raise_for_status() raises
RaisesForStatus(resp) == resp.status >= 400

(***************************************************************************)
(* get_pdf_url                                                             *)
(***************************************************************************)

\* an anchor without the attribute: link.get('href') is None
NoAttr == <<"<none>">>

\* the function returned None
None == <<"<None>">>

\* pdf_patterns[k], as a predicate on one anchor
PdfPattern(k, a) ==
    CASE k = 1 -> a.href # NoAttr /\ a.href # <<>> /\ Contains(Lower(a.href), "pdf")
      [] k = 2 -> a.href # NoAttr /\ a.href # <<>> /\ Contains(Lower(a.href), "download")
      [] k = 3 -> a.href # NoAttr /\ a.href # <<>> /\ Contains(Lower(a.href), "report")
      [] k = 4 -> a.text # <<>> /\ \E term \in {"report", "download", "pdf"} :
                                     Contains(Lower(a.text), term)

NumPatterns == 4

\* pattern(soup): soup.find_all('a', ...) keeps document order
FindAll(k, anchors) == SelectSeq(anchors, LAMBDA a : PdfPattern(k, a))

\* the probe of one candidate: requests.head(full_url, allow_redirects=True)
ProbeSend(full_url, probes) == PlainSend("probe", full_url, probes[full_url])

\* 'pdf' in head.headers.get('content-type', '').lower(); an exception in the
\* probe is caught and the candidate passed over
Verifies(sent) ==
    /\ ~sent.response.raised
    /\ Contains(Lower(sent.response.content_type), "pdf")

RECURSIVE ScanLinks(_, _, _, _)
\* `for link in links:` of one pattern; log holds the requests issued so far
ScanLinks(links, base, probes, log) ==
    IF links = <<>> THEN [raised |-> FALSE, result |-> None, reqs |-> log]
    ELSE LET href == Head(links).href
         IN  IF href = NoAttr \/ href = <<>>
             THEN ScanLinks(Tail(links), base, probes, log)
             ELSE IF UrlJoinRaises(href)
             THEN [raised |-> TRUE, result |-> None, reqs |-> log]
             ELSE LET full_url == UrlJoin(base, href)
                      sent == ProbeSend(full_url, probes)
                  IN  IF Verifies(sent)
                      THEN [raised |-> FALSE, result |-> full_url,
                            reqs |-> Append(log, Logged(sent))]
                      ELSE ScanLinks(Tail(links), base, probes,
                                     Append(log, Logged(sent)))

RECURSIVE ScanPatterns(_, _, _, _, _)
\* `for pattern in pdf_patterns:`
ScanPatterns(k, anchors, base, probes, log) ==
    IF k > NumPatterns THEN [raised |-> FALSE, result |-> None, reqs |-> log]
    ELSE LET r == ScanLinks(FindAll(k, anchors), base, probes, log)
         IN  IF r.raised \/ r.result # None THEN r
             ELSE ScanPatterns(k + 1, anchors, base, probes, r.reqs)

\* the fetch of the article page: session.get(article_url)
PageSend(url, behaviour) == SessionSend("page", url, behaviour)

\* the body of get_pdf_url's outer try
GetPdfUrlTry(url, pageBehaviour, probes) ==
    LET sent == PageSend(url, pageBehaviour)
    IN  IF sent.response.raised \/ RaisesForStatus(sent.response)
        THEN [raised |-> TRUE, result |-> None, reqs |-> <<Logged(sent)>>]
        ELSE ScanPatterns(1, sent.response.anchors, url, probes, <<Logged(sent)>>)

\* an except clause that lets the exception through
ExceptNothing(r) == r

\* `except Exception as e: logging.error(...); return None`
ExceptReturnsNone(r) ==
    IF r.raised THEN [r EXCEPT !.raised = FALSE, !.result = None] ELSE r

GetPdfUrl(url, pageBehaviour, probes) ==
    ExceptReturnsNone(GetPdfUrlTry(url, pageBehaviour, probes))

(***************************************************************************)
(* get_pdf_filename                                                        *)
(***************************************************************************)

\* the header is not in response.headers
NoHeader == <<"<absent>">>

QuoteChars == {"\"", "'"}

DotPdf == <<".", "pdf">>

GetPdfFilename(url, resp) ==
    LET fromUrl == SplitLast(url, "/")
        content_disp == resp.content_disposition
        picked ==
            IF content_disp # NoHeader /\ Contains(content_disp, "filename=")
            THEN Strip(SplitLast(content_disp, "filename="), QuoteChars)
            ELSE fromUrl
        cleaned == SplitFirst(picked, "?")
    IN  IF ~EndsWith(Lower(cleaned), DotPdf) THEN cleaned \o DotPdf ELSE cleaned

(***************************************************************************)
(* download_pdf                                                            *)
(***************************************************************************)

\* the header is not in response.headers: headers.get(name, default)
NoLength == -1

\* a 200 answer to session.head(pdf_url) with these headers
HeadOk(disposition, length) ==
    [raised |-> FALSE, status |-> 200, content_type |-> PdfType,
     content_disposition |-> disposition, content_length |-> length]

\* output_dir = Path('pdfs')
OutputDir == <<"pdfs", "/">>

\* output_dir / filename: pathlib drops output_dir when the name is absolute
\* and keeps ".." components as they are
OutputPath(output_dir, name) ==
    IF name # <<>> /\ Head(name) = "/" THEN name ELSE output_dir \o name

\* output_path.exists()
Exists(files, path) == path \in DOMAIN files

\* int(response.headers.get('content-length', 0))
ContentLengthOr0(resp) ==
    IF resp.content_length = NoLength THEN 0 ELSE resp.content_length

\* a comparison that never finds the sizes equal
SizesNeverMatch(existing_size, expected_size) == FALSE

\* `if existing_size == expected_size:`
SizesMatch(existing_size, expected_size) == existing_size = expected_size

\* the files after `open(output_path, 'wb')` and the writes of the chunks that
\* arrived: the file is created or truncated, then holds what was written
WriteFile(files, path, url, written) ==
    [p \in DOMAIN files \cup {path} |->
        IF p = path THEN [size |-> written, from |-> url] ELSE files[p]]

\* the body of download_pdf's try.  head and get are the server's behaviour
\* towards session.head(pdf_url) and session.get(pdf_url, stream=True).
DownloadPdfTry(url, output_dir, files, head, get) ==
    LET sentHead == SessionSend("head", url, head)
        hr == sentHead.response
        base == [raised |-> FALSE, result |-> None, fs |-> files,
                 reqs |-> <<Logged(sentHead)>>, events |-> <<"download">>,
                 head_response |-> hr, filename |-> None]
    IN  IF hr.raised \/ RaisesForStatus(hr)
        THEN [base EXCEPT !.raised = TRUE]
        ELSE
        LET name == GetPdfFilename(url, hr)
            output_path == OutputPath(output_dir, name)
            named == [base EXCEPT !.filename = name]
        IN  IF /\ Exists(files, output_path)
               /\ SizesMatch(files[output_path].size, ContentLengthOr0(hr))
            THEN [named EXCEPT !.result = output_path]
            ELSE
            LET sentGet == SessionSend("body", url, get)
                gr == sentGet.response
                got == [named EXCEPT !.reqs = <<Logged(sentHead), Logged(sentGet)>>]
            IN  IF gr.raised \/ RaisesForStatus(gr)
                THEN [got EXCEPT !.raised = TRUE]
                ELSE
                LET written == [got EXCEPT
                                  !.fs = WriteFile(files, output_path, url, gr.delivered)]
                IN  IF gr.broken
                    THEN [written EXCEPT !.raised = TRUE]
                    ELSE [written EXCEPT !.result = output_path,
                                         !.events = <<"download", "sleep">>]

DownloadPdf(url, output_dir, files, head, get) ==
    ExceptReturnsNone(DownloadPdfTry(url, output_dir, files, head, get))

(***************************************************************************)
(* The variables of the parts of the program that a specification leaves   *)
(* out keep these values                                                   *)
(***************************************************************************)

FilenameIdle == pdf_url = None /\ head_response = NoResponse /\ filename = None

ResolveIdle ==
    /\ article_url = None /\ page = None /\ probe = None /\ resolved = None
    /\ reqs = <<>>

BatchIdle ==
    /\ article_links = <<>> /\ idx = 0 /\ state = <<>>
    /\ pdf_path = None /\ returned = <<>> /\ downloaded_files = <<>>
    /\ fs = <<>> /\ events = <<>> /\ calls = 0

DiscoverIdle == response = NoResponse /\ all_links = {}

(***************************************************************************)
(* The servers of the PDFs                                                 *)
(***************************************************************************)

\* the largest file, in bytes
MaxBytes == 2

\* the Content-Length a server sends for a PDF, if it sends one
Lengths == {NoLength} \cup 1..MaxBytes

\* What a server holds under a PDF URL: the Content-Disposition and
\* Content-Length headers it sends for it (to HEAD and to GET alike), the bytes
\* that iter_content hands over when the body is streamed (these differ from
\* Content-Length when the body is sent content-encoded, or when the stream
\* ends early without an error), and whether the stream then breaks with an
\* exception.
Resources(dispositions) ==
    [ content_disposition : dispositions,
      content_length : Lengths,
      delivered : 0..MaxBytes,
      broken : BOOLEAN ]

\* a 200 answer to session.get(pdf_url, stream=True)
Body(res) ==
    [raised |-> FALSE, status |-> 200, content_type |-> PdfType,
     content_length |-> res.content_length, delivered |-> res.delivered,
     broken |-> res.broken]

\* how a request may fail whatever the resource: not at all, the connection
\* fails, the server answers 404, the server answers 503 beyond the retries
Failures == {"none", "connection", "404", "503s"}

Behaviour(failure, okReply) ==
    CASE failure = "none" -> [transient |-> 0, reply |-> okReply]
      [] failure = "connection" -> [transient |-> 0, reply |-> ConnError]
      [] failure = "404" -> [transient |-> RetryTotal, reply |-> NotFound]
      [] failure = "503s" -> [transient |-> RetryTotal + 1, reply |-> okReply]

\* how the two requests of one download fail: <<HEAD, GET>>.  After a failed
\* HEAD no GET is sent, so its failure is left open only when HEAD succeeds.
DownloadFailures ==
    { <<h, g>> : h \in Failures, g \in Failures } \
        { <<h, g>> : h \in Failures \ {"none"}, g \in Failures \ {"none"} }

HeadBehaviour(res, failure) ==
    Behaviour(failure, HeadOk(res.content_disposition, res.content_length))

GetBehaviour(res, failure) == Behaviour(failure, Body(res))

(***************************************************************************)
(* download_pdf on its own: calls of download_pdf, one after the other, on *)
(* a directory that starts empty                                           *)
(***************************************************************************)

\* the most calls of download_pdf in a row
MaxCalls == 2

DownloadUrls ==
    { Origin("www.mhrc.ca") \o <<"/", "a", ".", "pdf">>,
      Origin("www.mhrc.ca") \o <<"/", "docs", "/", "a", ".", "pdf">> }

DownloadDispositions ==
    { NoHeader,
      <<"attachment", "; ", "filename=", "\"", "/", "tmp", "/", "evil", ".", "pdf", "\"">> }

DownloadInit ==
    /\ FilenameIdle
    /\ ResolveIdle
    /\ DiscoverIdle
    /\ article_links = <<>> /\ idx = 0 /\ state = <<>> /\ returned = <<>>
    /\ downloaded_files = <<>>
    /\ pdf_path = None
    /\ fs = <<>>
    /\ events = <<>>
    /\ calls = 0
    /\ pc = "idle"

\* pdf_path = download_pdf(pdf_url, output_dir)
DownloadCall ==
    /\ pc \in {"idle", "returned"}
    /\ calls < MaxCalls
    /\ \E url \in DownloadUrls, res \in Resources(DownloadDispositions),
          fails \in DownloadFailures :
         \E r \in {DownloadPdf(url, OutputDir, fs,
                                HeadBehaviour(res, fails[1]),
                                GetBehaviour(res, fails[2]))} :
             /\ pdf_url' = url
             /\ head_response' = r.head_response
             /\ filename' = r.filename
             /\ reqs' = r.reqs
             /\ events' = r.events
             /\ fs' = r.fs
             /\ pdf_path' = r.result
             /\ pc' = IF r.raised THEN "crashed" ELSE "returned"
    /\ calls' = calls + 1
    /\ UNCHANGED discoverVars
    /\ UNCHANGED <<resolveVars, article_links, idx, state, returned, downloaded_files>>

SpecDownload == DownloadInit /\ [][DownloadCall]_vars

(***************************************************************************)
(* Resolution on its own: one call of get_pdf_url on a drawn page          *)
(***************************************************************************)

\* the longest page drawn, in anchors
MaxAnchors == 2

ArticleUrl == Origin("www.mhrc.ca") \o <<"/", "research", "-briefs">>

Anchors ==
    { [href |-> <<"a", ".", "pdf">>,                  text |-> <<"more">>],
      [href |-> <<"/", "download", "/", "b">>,        text |-> <<"more">>],
      [href |-> <<"/", "report">>,                    text |-> <<"more">>],
      [href |-> <<"/", "x">>,                         text |-> <<"Full ", "Report">>],
      [href |-> <<"/", "download", "/", "A", ".", "PDF">>, text |-> <<"pdf">>],
      [href |-> NoAttr,                               text |-> <<"download">>],
      [href |-> <<>>,                                 text |-> <<"Report">>],
      [href |-> <<"/", "/", "[", "c", ".", "pdf">>,   text |-> <<"more">>],
      [href |-> <<"/", "y">>,                         text |-> <<"more">>] }

Pages == UNION { [1..n -> Anchors] : n \in 0..MaxAnchors }

\* a page that holds one link to a PDF
OnePdfPage == OkPage(<<[href |-> <<"a", ".", "pdf">>, text |-> <<"more">>]>>)

PageBehaviours ==
    { [transient |-> 0, reply |-> OkPage(p)] : p \in Pages }
    \cup { [transient |-> t, reply |-> OnePdfPage] : t \in {1, RetryTotal, RetryTotal + 1} }
    \cup { [transient |-> 0, reply |-> r] : r \in {NotFound, ConnError} }

ProbeBehaviours ==
    { [transient |-> 0, reply |-> r] :
        r \in { [raised |-> FALSE, status |-> 200, content_type |-> PdfType, anchors |-> <<>>],
                [raised |-> FALSE, status |-> 200, content_type |-> HtmlType, anchors |-> <<>>],
                ConnError } }
    \cup { [transient |-> 1,
            reply |-> [raised |-> FALSE, status |-> 200,
                       content_type |-> <<"application/", "PDF">>, anchors |-> <<>>]] }

\* the anchors of the page the server would send
AnchorsOf(behaviour) ==
    IF behaviour.reply.raised THEN <<>> ELSE behaviour.reply.anchors

\* the URLs the anchors of a page lead to
LinkedUrls(base, anchors) ==
    { UrlJoin(base, anchors[i].href) :
        i \in { j \in 1..Len(anchors) :
                  anchors[j].href # NoAttr /\ ~UrlJoinRaises(anchors[j].href) } }

ResolveInit ==
    /\ article_url = ArticleUrl
    /\ page \in PageBehaviours
    /\ probe \in [LinkedUrls(article_url, AnchorsOf(page)) -> ProbeBehaviours]
    /\ resolved = None
    /\ reqs = <<>>
    /\ pc = "call"
    /\ FilenameIdle
    /\ BatchIdle
    /\ DiscoverIdle

\* pdf_url = get_pdf_url(link)
ResolveCall ==
    /\ pc = "call"
    /\ LET r == GetPdfUrl(article_url, page, probe)
       IN  /\ resolved' = r.result
           /\ reqs' = r.reqs
    /\ pc' = "returned"
    /\ UNCHANGED discoverVars
    /\ UNCHANGED <<filenameVars, article_url, page, probe, batchVars>>

SpecResolve == ResolveInit /\ [][ResolveCall]_vars

(***************************************************************************)
(* Filename derivation on its own: one call of get_pdf_filename            *)
(***************************************************************************)

\* the most directories drawn between the host and the file of a PDF URL
MaxDirs == 1

FileStems ==
    { <<"file", ".", "php">>, <<"a", ".", "pdf">>, <<"A", ".", "PDF">>, <<"report">> }

Queries ==
    { <<>>, <<"?", "token=abc">>, <<"?", "next=", "/", "b">> }

DirPaths == UNION { [1..n -> {"/docs"}] : n \in 0..MaxDirs }

PdfUrls ==
    { Origin("x.org") \o d \o <<"/">> \o f \o q :
        d \in DirPaths, f \in FileStems, q \in Queries }

\* the values a server may put after filename=
DispositionNames ==
    { <<"report", ".", "pdf">>, <<"Report", ".", "PDF">>, <<"report">>,
      <<"r", ".", "pdf", "?", "v=2">>, <<"..", "/", "evil", ".", "pdf">> }

ContentDispositions ==
    { NoHeader, <<"inline">> }
    \cup { pre \o <<"filename=">> \o qt \o n \o qt \o post :
             pre \in {<<>>, <<"attachment", "; ">>},
             qt \in {<<>>, <<"\"">>, <<"'">>},
             n \in DispositionNames,
             post \in {<<>>, <<"; ", "size=1">>} }

FilenameInit ==
    /\ pdf_url \in PdfUrls
    /\ head_response \in { HeadOk(cd, NoLength) : cd \in ContentDispositions }
    /\ filename = None
    /\ pc = "call"
    /\ ResolveIdle
    /\ BatchIdle
    /\ DiscoverIdle

\* filename = get_pdf_filename(pdf_url, head_response)
FilenameCall ==
    /\ pc = "call"
    /\ filename' = GetPdfFilename(pdf_url, head_response)
    /\ pc' = "returned"
    /\ UNCHANGED discoverVars
    /\ UNCHANGED <<pdf_url, head_response, resolveVars, reqs, batchVars>>

SpecFilename == FilenameInit /\ [][FilenameCall]_vars

(***************************************************************************)
(* process_article_links                                                   *)
(***************************************************************************)

\* the longest list of links drawn
MaxLinks == 2

\* the longest page drawn in a batch, in anchors
MaxBatchAnchors == 1

BatchLinks ==
    { ArticleUrl, Origin("www.mhrc.ca") \o <<"/", "national-", "poll", "ing">> }

BatchAnchors ==
    { [href |-> <<"a", ".", "pdf">>,                   text |-> <<"more">>],
      [href |-> <<"/", "docs", "/", "a", ".", "pdf">>, text |-> <<"Full ", "Report">>] }

BatchPageBehaviours ==
    { [transient |-> 0, reply |-> OkPage(p)] :
        p \in UNION { [1..n -> BatchAnchors] : n \in 0..MaxBatchAnchors } }
    \cup { [transient |-> RetryTotal + 1, reply |-> OnePdfPage],
           [transient |-> 0, reply |-> NotFound] }

Init ==
    /\ article_links \in UNION { [1..n -> BatchLinks] : n \in 0..MaxLinks }
    /\ idx = 1
    /\ state = [i \in 1..Len(article_links) |-> "Pending"]
    /\ returned = [i \in 1..Len(article_links) |-> None]
    /\ downloaded_files = <<>>
    /\ fs = <<>>
    /\ events = <<>>
    /\ reqs = <<>>
    /\ pdf_path = None
    /\ calls = 0
    /\ pc = "loop"
    /\ FilenameIdle
    /\ ResolveIdle
    /\ DiscoverIdle

\* `for link in ...:` takes the next link and calls get_pdf_url(link)
StartLink ==
    /\ pc = "loop"
    /\ idx <= Len(article_links)
    /\ state' = [state EXCEPT ![idx] = "Resolving"]
    /\ article_url' = article_links[idx]
    /\ resolved' = None
    /\ reqs' = <<>>
    /\ pc' = "resolving"
    /\ UNCHANGED discoverVars
    /\ UNCHANGED <<filenameVars, page, probe, article_links, idx,
                   pdf_path, returned, downloaded_files, fs, events, calls>>

\* get_pdf_url(link) runs and returns; `if not pdf_url: continue`
Resolve ==
    /\ pc = "resolving"
    /\ \E pb \in BatchPageBehaviours :
         \E probes \in [LinkedUrls(article_url, AnchorsOf(pb)) -> ProbeBehaviours] :
           \E r \in {GetPdfUrl(article_url, pb, probes)} :
               /\ reqs' = r.reqs
               /\ events' = Append(events, "page")
               /\ resolved' = r.result
               /\ IF r.raised
                  THEN /\ pc' = "crashed"
                       /\ UNCHANGED <<state, idx>>
                  ELSE IF r.result = None
                  THEN /\ state' = [state EXCEPT ![idx] = "Unresolved"]
                       /\ idx' = idx + 1
                       /\ pc' = "loop"
                  ELSE /\ state' = [state EXCEPT ![idx] = "Resolved"]
                       /\ idx' = idx
                       /\ pc' = "resolved"
    /\ UNCHANGED discoverVars
    /\ UNCHANGED <<filenameVars, article_url, page, probe, article_links,
                   pdf_path, returned, downloaded_files, fs, calls>>

\* time.sleep(1), then the call of download_pdf(pdf_url, output_dir)
Sleep ==
    /\ pc = "resolved"
    /\ events' = Append(events, "sleep")
    /\ state' = [state EXCEPT ![idx] = "Downloading"]
    /\ pdf_url' = resolved
    /\ reqs' = <<>>
    /\ pc' = "downloading"
    /\ UNCHANGED discoverVars
    /\ UNCHANGED <<head_response, filename, resolveVars, article_links, idx,
                   pdf_path, returned, downloaded_files, fs, calls>>

\* download_pdf(pdf_url, output_dir) runs and returns
Download ==
    /\ pc = "downloading"
    /\ \E res \in Resources({NoHeader}), fails \in DownloadFailures :
         \E r \in {DownloadPdf(pdf_url, OutputDir, fs,
                                HeadBehaviour(res, fails[1]),
                                GetBehaviour(res, fails[2]))} :
             /\ reqs' = r.reqs
             /\ events' = events \o r.events
             /\ fs' = r.fs
             /\ pdf_path' = r.result
             /\ IF r.raised
                THEN /\ pc' = "crashed"
                     /\ UNCHANGED <<state, returned>>
                ELSE /\ state' = [state EXCEPT ![idx] =
                                    IF r.result = None THEN "Failed" ELSE "Done"]
                     /\ returned' = [returned EXCEPT ![idx] = r.result]
                     /\ pc' = "downloaded"
    /\ calls' = calls + 1
    /\ UNCHANGED discoverVars
    /\ UNCHANGED <<filenameVars, resolveVars, article_links, idx, downloaded_files>>

\* a loop that takes the same link again when its download failed
CollectOrRetry ==
    /\ pc = "downloaded"
    /\ downloaded_files' =
         IF pdf_path # None THEN Append(downloaded_files, pdf_path)
         ELSE downloaded_files
    /\ idx' = IF pdf_path # None THEN idx + 1 ELSE idx
    /\ pdf_url' = None
    /\ pdf_path' = None /\ reqs' = <<>>
    /\ pc' = "loop"
    /\ UNCHANGED discoverVars
    /\ UNCHANGED <<head_response, filename, resolveVars, article_links, state,
                   returned, fs, events, calls>>

\* `if pdf_path: downloaded_files.append(pdf_path)`, and on to the next link
Collect ==
    /\ pc = "downloaded"
    /\ downloaded_files' =
         IF pdf_path # None THEN Append(downloaded_files, pdf_path)
         ELSE downloaded_files
    /\ idx' = idx + 1
    /\ pdf_url' = None
    /\ pdf_path' = None /\ reqs' = <<>>
    /\ pc' = "loop"
    /\ UNCHANGED discoverVars
    /\ UNCHANGED <<head_response, filename, resolveVars, article_links, state,
                   returned, fs, events, calls>>

\* `return downloaded_files`
Finish ==
    /\ pc = "loop"
    /\ idx > Len(article_links)
    /\ pc' = "done"
    /\ UNCHANGED discoverVars
    /\ UNCHANGED <<filenameVars, resolveVars, reqs, batchVars>>

Next == StartLink \/ Resolve \/ Sleep \/ Download \/ Collect \/ Finish

Spec == Init /\ [][Next]_vars

\* The loop is sequential code on one thread: as long as a step is possible
\* (every network call returns), the program takes it.
SpecLive == Spec /\ WF_vars(Next)

(***************************************************************************)
(* main: the discovery of further links on the seed pages                  *)
(***************************************************************************)

\* base_url
BaseUrl == Origin("www.mhrc.ca")

\* the list main starts from
SeedLinks ==
    << BaseUrl \o <<"/", "national-", "poll", "ing">>,
       BaseUrl \o <<"/", "key-facts-on-mental-health">>,
       BaseUrl \o <<"/", "research", "-briefs">> >>

\* the terms of the relevance test
Terms == <<"poll", "report", "research", "study", "findings">>

\* a relevance test that looks only at the href
MightBeRelevantByHref(link) ==
    \E k \in 1..Len(Terms) : Contains(Lower(link.href), Terms[k])

\* any(term in href.lower() or (link.text and term in link.text.lower()) ...)
MightBeRelevant(link) ==
    \E k \in 1..Len(Terms) :
        \/ Contains(Lower(link.href), Terms[k])
        \/ (link.text # <<>> /\ Contains(Lower(link.text), Terms[k]))

RECURSIVE ScanSeedPage(_, _, _)
\* the loop over soup.find_all('a', href=True): all_links after the anchors
\* of the page of seed `url` have been looked at, or after urljoin raised
ScanSeedPage(url, anchors, found) ==
    IF anchors = <<>> THEN [raised |-> FALSE, all_links |-> found]
    ELSE LET link == Head(anchors)
             href == link.href
         IN  IF href # NoAttr /\ href # <<>> /\ MightBeRelevant(link)
             THEN IF UrlJoinRaises(href)
                  THEN [raised |-> TRUE, all_links |-> found]
                  ELSE LET full_url == UrlJoin(url, href)
                       IN  IF ContainsText(full_url, BaseUrl)
                           THEN ScanSeedPage(url, Tail(anchors), found \cup {full_url})
                           ELSE ScanSeedPage(url, Tail(anchors), found)
             ELSE ScanSeedPage(url, Tail(anchors), found)

\* the longest seed page drawn, in anchors
MaxSeedAnchors == 2

SeedAnchors ==
    { [href |-> <<"/", "Study", "/", "x">>,            text |-> <<"Read">>],
      [href |-> <<"?", "page=2">>,                     text |-> <<"Next">>],
      [href |-> <<"/", "about">>,                      text |-> <<"Research">>],
      [href |-> Origin("other.org") \o <<"/", "report">>, text |-> <<"Report">>],
      [href |-> <<"/", "/", "[", "report">>,           text |-> <<"Read">>],
      [href |-> <<>>,                                  text |-> <<"Report">>] }

SeedPages == UNION { [1..n -> SeedAnchors] : n \in 0..MaxSeedAnchors }

\* how the server of a seed page behaves
SeedBehaviours ==
    { [transient |-> 0, reply |-> OkPage(p)] : p \in SeedPages }
    \cup { [transient |-> 1, reply |-> OkPage(<<>>)],
           [transient |-> 0, reply |-> ConnError] }

DiscoverInit ==
    /\ article_links = SeedLinks
    /\ idx = 1
    /\ response = NoResponse
    /\ all_links = {}
    /\ reqs = <<>>
    /\ pc = "discover"
    /\ state = <<>> /\ pdf_path = None /\ returned = <<>>
    /\ downloaded_files = <<>> /\ fs = <<>> /\ events = <<>> /\ calls = 0
    /\ article_url = None /\ page = None /\ probe = None /\ resolved = None
    /\ FilenameIdle

\* one turn of `for url in article_links`: fetch the seed page and add its
\* relevant same-domain links; any exception is logged and the loop goes on
\* with what all_links holds by then
DiscoverSeed ==
    /\ pc = "discover"
    /\ idx <= Len(article_links)
    /\ \E b \in SeedBehaviours :
         LET url == article_links[idx]
             sent == PlainSend("seed", url, b)
         IN  /\ reqs' = <<Logged(sent)>>
             /\ response' = sent.response
             /\ all_links' =
                  IF sent.response.raised THEN all_links
                  ELSE IF RaisesForStatus(sent.response) THEN all_links
                  ELSE ScanSeedPage(url, sent.response.anchors, all_links).all_links
    /\ idx' = idx + 1
    /\ UNCHANGED <<filenameVars, article_url, page, probe, resolved,
                   article_links, state, pdf_path, returned, downloaded_files,
                   fs, events, calls, pc>>

\* all_links.update(article_links); the set is what the batch is given
HandOver ==
    /\ pc = "discover"
    /\ idx > Len(article_links)
    /\ all_links' = all_links \cup { article_links[i] : i \in 1..Len(article_links) }
    /\ pc' = "handed"
    /\ UNCHANGED <<filenameVars, resolveVars, reqs, article_links, idx, state,
                   pdf_path, returned, downloaded_files, fs, events, calls,
                   response>>

DiscoverNext == DiscoverSeed \/ HandOver

SpecDiscover == DiscoverInit /\ [][DiscoverNext]_vars

(***************************************************************************)
(* Properties of resolution                                                *)
(***************************************************************************)

\* the words of the four strategies, in priority order
StrategyWords == <<{"pdf"}, {"download"}, {"report"}, {"report", "download", "pdf"}>>

\* the anchor is a candidate of strategy k: strategies 1 to 3 look at the href,
\* strategy 4 at the visible text, all without regard to case; an anchor with
\* no href, an empty one or one that is no URL names nothing to probe
IsCandidate(k, a) ==
    LET looked == IF k < 4 THEN a.href ELSE a.text
    IN  /\ a.href \notin {NoAttr, <<>>}
        /\ ~UrlJoinRaises(a.href)
        /\ \E w \in StrategyWords[k] : \E i \in 1..Len(looked) : LowerTok(looked[i]) = w

\* the candidates of a page: by strategy, then by document order
Candidates(base, anchors) ==
    LET of(k) == SelectSeq(anchors, LAMBDA a : IsCandidate(k, a))
        all == of(1) \o of(2) \o of(3) \o of(4)
    IN  [i \in 1..Len(all) |-> UrlJoin(base, all[i].href)]

\* the probe of this URL answers with a content-type that contains "pdf"
ProbeSaysPdf(u) == Verifies(ProbeSend(u, probe))

PageFetched ==
    LET sent == PageSend(article_url, page)
    IN  ~sent.response.raised /\ ~RaisesForStatus(sent.response)

\* the URLs probed by the last call, in order
Probed ==
    LET ps == SelectSeq(reqs, LAMBDA r : r.site = "probe")
    IN  [i \in 1..Len(ps) |-> ps[i].url]

\* C4: when the page fetch succeeds, get_pdf_url returns the first candidate
\* (ordered by strategy 1..4, then by document order) whose probe reports a
\* PDF content-type, issues no probe after it, and returns None exactly when
\* no candidate of any strategy verifies.
ResolutionPriority ==
    (pc = "returned" /\ PageFetched) =>
        LET cands == Candidates(article_url, AnchorsOf(page))
            hits == { i \in 1..Len(cands) : ProbeSaysPdf(cands[i]) }
        IN  IF hits = {}
            THEN resolved = None
            ELSE LET first == CHOOSE i \in hits : \A j \in hits : i <= j
                 IN  resolved = cands[first] /\ Probed = SubSeq(cands, 1, first)

(***************************************************************************)
(* Properties of filename derivation                                       *)
(***************************************************************************)

\* the value of the header's filename= parameter: up to the next ";", unquoted
DispositionValue(cd) ==
    LET after == SplitLast(cd, "filename=")
        value == SplitFirst(after, "; ")
    IN  Strip(value, QuoteChars)

\* the last segment of the URL's path: the query is no part of the path
LastPathSegment(url) == SplitLast(SplitFirst(url, "?"), "/")

\* the rule of derivation: the header's filename= value if present, else the
\* last path segment of the URL; without query; with ".pdf" if it lacks it
RuleFilename(url, resp) ==
    LET cd == resp.content_disposition
        picked == IF cd # NoHeader /\ Contains(cd, "filename=")
                  THEN DispositionValue(cd)
                  ELSE LastPathSegment(url)
        cleaned == SplitFirst(picked, "?")
    IN  IF EndsWith(Lower(cleaned), DotPdf) THEN cleaned ELSE cleaned \o DotPdf

\* C3: for every URL and header set, get_pdf_filename gives the filename of
\* the rule: Content-Disposition filename= value if present, else the last
\* path segment of the URL; the query string stripped; ".pdf" appended unless
\* the name already ends in it, case-insensitively.
FilenameFollowsRule ==
    pc = "returned" => filename = RuleFilename(pdf_url, head_response)

(***************************************************************************)
(* Properties of download_pdf                                              *)
(***************************************************************************)

\* the HEAD request of the call was answered with a success status
HeadSucceeded(hr) == ~hr.raised /\ ~RaisesForStatus(hr)

\* the call sent a body-transferring request
SentGet(log) == \E i \in 1..Len(log) : log[i].site = "body"

\* a step that is one call of download_pdf
IsDownloadCall == calls' = calls + 1

\* C1: a call of download_pdf that finds a file at output_dir/filename whose
\* size equals the content-length reported by the HEAD request issues no GET
\* request, leaves the files as they are and returns that path.
IdempotentSkip ==
    [][ ( /\ IsDownloadCall
          /\ HeadSucceeded(head_response')
          /\ head_response'.content_length # NoLength
          /\ Exists(fs, OutputPath(OutputDir, filename'))
          /\ fs[OutputPath(OutputDir, filename')].size = head_response'.content_length )
        => ( /\ ~SentGet(reqs')
             /\ fs' = fs
             /\ pdf_path' = OutputPath(OutputDir, filename') ) ]_vars

\* a second call that skipped a file of one byte or more left by the first
IdempotentSkipWitness ==
    /\ pc = "returned"
    /\ calls = 2
    /\ HeadSucceeded(head_response)
    /\ head_response.content_length # NoLength
    /\ head_response.content_length > 0
    /\ pdf_path # None
    /\ ~SentGet(reqs)
    /\ fs[pdf_path].size = head_response.content_length

\* C2: whenever download_pdf returns a path and the server sent a
\* content-length, the file at that path has that size.
ReturnedFileHasReportedSize ==
    ( /\ pc = "returned"
      /\ pdf_path # None
      /\ HeadSucceeded(head_response)
      /\ head_response.content_length # NoLength )
    => fs[pdf_path].size = head_response.content_length

\* C7: when the HEAD response carries no content-length, a call of
\* download_pdf that finds a file at the target path, whatever its size,
\* downloads it again.
NoLengthAlwaysDownloads ==
    [][ ( /\ IsDownloadCall
          /\ HeadSucceeded(head_response')
          /\ head_response'.content_length = NoLength
          /\ Exists(fs, OutputPath(OutputDir, filename')) )
        => SentGet(reqs') ]_vars

(***************************************************************************)
(* Properties of process_article_links                                     *)
(***************************************************************************)

Terminal == {"Done", "Failed", "Unresolved"}

\* the paths of the first n links that ended Done, in input order
PathsOfDone(n) ==
    Concat([i \in 1..n |-> IF state[i] = "Done" THEN <<returned[i]>> ELSE <<>>])

\* C5: whatever fails on the network, process_article_links raises nothing
\* and returns exactly the paths of the links that were resolved and whose
\* download returned a path, in input order; the other links add nothing.
BestEffortCollect ==
    /\ pc # "crashed"
    /\ pc = "done" =>
         /\ \A i \in 1..Len(article_links) :
              /\ state[i] \in Terminal
              /\ state[i] = "Done" <=> returned[i] # None
         /\ downloaded_files = PathsOfDone(Len(article_links))

\* a finished batch whose first link failed in the download and whose second
\* link produced a file
BestEffortCollectWitness ==
    /\ pc = "done"
    /\ Len(article_links) >= 2
    /\ state[1] = "Failed"
    /\ state[2] = "Done"
    /\ downloaded_files = <<returned[2]>>

\* C8: every request of a run goes through the shared session, so a status of
\* the forcelist is surfaced as a failure only after RetryTotal retries.
AllRequestsRetried ==
    \A i \in 1..Len(reqs) :
        /\ reqs[i].via = "session"
        /\ reqs[i].retryable => reqs[i].attempts = RetryTotal + 1

\* the moves of one link
LinkMoves ==
    { <<"Pending", "Resolving">>, <<"Resolving", "Unresolved">>,
      <<"Resolving", "Resolved">>, <<"Resolved", "Downloading">>,
      <<"Downloading", "Done">>, <<"Downloading", "Failed">> }

CountOf(kind) == Len(SelectSeq(events, LAMBDA e : e = kind))

\* C9: each link moves Pending -> Resolving -> (Unresolved | Resolved ->
\* Downloading -> (Done | Failed)) and never leaves a terminal state; each
\* link is resolved at most once and fetched at most once; link i+1 stays
\* Pending until link i is terminal; and every link ends in a terminal state.
PerLinkStateMachine ==
    /\ [][ \A i \in 1..Len(article_links) :
             state'[i] # state[i] => <<state[i], state'[i]>> \in LinkMoves ]_vars
    /\ [] ( /\ CountOf("page") =
                 Cardinality({ i \in 1..Len(article_links) :
                                 state[i] \notin {"Pending", "Resolving"} })
            /\ calls =
                 Cardinality({ i \in 1..Len(article_links) :
                                 state[i] \in {"Done", "Failed"} })
            /\ \A i \in 1..(Len(article_links) - 1) :
                 state[i + 1] # "Pending" => state[i] \in Terminal )
    /\ <> (\A i \in 1..Len(article_links) : state[i] \in Terminal)

\* a finished batch with one link Unresolved and another Failed
PerLinkStateMachineWitness ==
    /\ pc = "done"
    /\ \E i, j \in 1..Len(article_links) :
         state[i] = "Unresolved" /\ state[j] = "Failed"

\* events j and k are two fetches (or two downloads) in a row
InARow(kind, j, k) ==
    /\ j < k
    /\ events[j] = kind /\ events[k] = kind
    /\ \A m \in (j + 1)..(k - 1) : events[m] # kind

\* C10: a sleep lies between any two consecutive page fetches and between any
\* two consecutive downloads, whatever the outcomes of the links.
RateLimited ==
    \A kind \in {"page", "download"} :
        \A j, k \in 1..Len(events) :
            InARow(kind, j, k) => \E m \in (j + 1)..(k - 1) : events[m] = "sleep"

(***************************************************************************)
(* Properties of link discovery                                            *)
(***************************************************************************)

\* the seed was fetched and answered with a page
Reachable(resp) == ~resp.raised /\ resp.status < 400

Keywords == {"poll", "report", "research", "study", "findings"}

HasKeyword(text) == \E w \in Keywords : Contains(Lower(text), w)

\* the anchors of a page that carry a non-empty href
WithHref(anchors) == SelectSeq(anchors, LAMBDA a : a.href \notin {NoAttr, <<>>})

\* the anchors that come before the first one, among those with a keyword in
\* href or text, whose href is no URL
BeforeBrokenHref(anchors) ==
    LET broken == { i \in 1..Len(anchors) :
                      /\ HasKeyword(anchors[i].href) \/ HasKeyword(anchors[i].text)
                      /\ UrlJoinRaises(anchors[i].href) }
    IN  IF broken = {} THEN anchors
        ELSE SubSeq(anchors, 1, (CHOOSE i \in broken : \A j \in broken : i <= j) - 1)

\* what a seed adds by the amended rule: keyword in the raw href or the text
FoundByRawHref(url, resp) ==
    IF ~Reachable(resp) THEN {}
    ELSE LET as == BeforeBrokenHref(WithHref(resp.anchors))
         IN  { UrlJoin(url, as[i].href) :
                 i \in { j \in 1..Len(as) :
                           /\ HasKeyword(as[j].href) \/ HasKeyword(as[j].text)
                           /\ ContainsText(UrlJoin(url, as[j].href), BaseUrl) } }

\* what a seed adds by the rule of the claim: keyword in the resolved URL or
\* the text (an href that is no URL resolves to nothing)
FoundByResolvedUrl(url, resp) ==
    IF ~Reachable(resp) THEN {}
    ELSE LET as == SelectSeq(WithHref(resp.anchors),
                             LAMBDA a : ~UrlJoinRaises(a.href))
         IN  { UrlJoin(url, as[i].href) :
                 i \in { j \in 1..Len(as) :
                           /\ \/ HasKeyword(UrlJoin(url, as[j].href))
                              \/ HasKeyword(as[j].text)
                           /\ ContainsText(UrlJoin(url, as[j].href), BaseUrl) } }

TheSeeds == { article_links[i] : i \in 1..Len(article_links) }

IsSeedTurn == pc = "discover" /\ idx' = idx + 1

IsHandOver == pc = "discover" /\ pc' = "handed"

\* C6 as amended: the set handed to batch processing is the seeds united
\* with, for each reachable seed page, the resolved absolute URL of every
\* anchor (up to the first relevant anchor whose href cannot be resolved)
\* whose raw href attribute or visible text contains a keyword and whose
\* absolute URL contains the domain filter; an unreachable seed adds nothing.
\* Stated turn by turn: the set starts empty, each seed adds exactly its
\* links, and the hand-over adds exactly the seeds.
DiscoveryByRawHref ==
    /\ (pc = "discover" /\ idx = 1) => all_links = {}
    /\ [][ IsSeedTurn =>
             all_links' = all_links \cup FoundByRawHref(article_links[idx], response') ]_vars
    /\ [][ IsHandOver => all_links' = all_links \cup TheSeeds ]_vars

\* a finished discovery that found a link beyond the seeds, and whose last
\* seed page held an anchor with a keyword only in its resolved URL
DiscoveryByRawHrefWitness ==
    /\ pc = "handed"
    /\ all_links # TheSeeds
    /\ Reachable(response)
    /\ \E i \in 1..Len(response.anchors) :
         LET a == response.anchors[i]
         IN  /\ a.href \notin {NoAttr, <<>>}
             /\ ~HasKeyword(a.href) /\ ~HasKeyword(a.text)
             /\ HasKeyword(UrlJoin(article_links[Len(article_links)], a.href))
             /\ UrlJoin(article_links[Len(article_links)], a.href) \notin all_links

\* C6: the set handed to batch processing is the seeds united with, for each
\* reachable seed page, the resolved absolute URL of every anchor such that
\* the resolved absolute URL or the visible text contains a keyword and the
\* absolute URL contains the domain filter; an unreachable seed adds nothing.
DiscoveryByResolvedUrl ==
    /\ (pc = "discover" /\ idx = 1) => all_links = {}
    /\ [][ IsSeedTurn =>
             all_links' = all_links \cup FoundByResolvedUrl(article_links[idx], response') ]_vars
    /\ [][ IsHandOver => all_links' = all_links \cup TheSeeds ]_vars

(***************************************************************************)
(* Properties of the files on disk                                         *)
(***************************************************************************)

\* the name is one path component: no separator, no parent directory
IsPlainName(name) ==
    /\ name # <<>>
    /\ \A i \in 1..Len(name) : name[i] \notin {"/", ".."}

\* the path is output_dir followed by one plain name
IsDirectChild(output_dir, path) ==
    /\ Len(path) > Len(output_dir)
    /\ SubSeq(path, 1, Len(output_dir)) = output_dir
    /\ IsPlainName(SubSeq(path, Len(output_dir) + 1, Len(path)))

\* C11: for every URL and every Content-Disposition value, every file that
\* download_pdf creates or overwrites is a direct child of the output
\* directory, and the derived filename holds no path separator, no parent
\* directory component and no absolute path.
OutputConfined ==
    /\ \A path \in DOMAIN fs : IsDirectChild(OutputDir, path)
    /\ (pc = "returned" /\ filename # None) => IsPlainName(filename)

\* the paths the batch has collected so far
CollectedPaths == { downloaded_files[i] : i \in 1..Len(downloaded_files) }

\* C12: every path the batch returns designates a file that holds what was
\* downloaded for the PDF URL resolved from its own link: a path returned by
\* download_pdf holds the content of the URL of that call (a skip never
\* reuses the file of another URL), and a download never changes a collected
\* file that was produced for another URL.
NoCrossLinkClobbering ==
    /\ [] ( (pc = "downloaded" /\ pdf_path # None) => fs[pdf_path].from = pdf_url )
    /\ [][ IsDownloadCall =>
             \A path \in CollectedPaths :
                 fs[path].from # pdf_url => fs'[path] = fs[path] ]_vars

====
